---------------------------- MODULE Spec2Model ----------------------------
(***************************************************************************)
(* Model of src/deal_evaluation.py: the PDF/DOCX text extraction, the      *)
(* metric extraction (regular expressions over the text, label-matched     *)
(* table rows), the threshold scoring, the weighted final score and the    *)
(* result main() renders.                                                  *)
(*                                                                         *)
(* Representation.  A Python str is a sequence of one-character strings.   *)
(* A Python value that the code inspects dynamically (a table, a row, a    *)
(* cell, None) is a record [t, v]: t is the Python type and v the          *)
(* contents.  A float is an integer number of hundredths (Scale), which is *)
(* exact for every numeral of the model's inputs (at most two fractional   *)
(* digits, no sign, no exponent).                                          *)
(***************************************************************************)
EXTENDS Integers, Sequences, FiniteSets, TLC

VARIABLES pc, doc, text, tables, metrics, scores, final_score, output, err

vars == <<pc, doc, text, tables, metrics, scores, final_score, output, err>>

\* ------------------------------------------------------------ bounds
\* Rows per table input of the direct extraction calls.
MaxRows == 2
\* Pages of an uploaded PDF, paragraphs of an uploaded DOCX.
MaxPages == 2
\* Metric inputs of the scoring calls lie within Delta hundredths of a
\* threshold of the ladders.
Delta == 1

\* Floats are counted in hundredths.
Scale == 10 * 10

\* ------------------------------------------------------ Python values
PyNone == [t |-> "none", v |-> <<>>]
PyStr(s) == [t |-> "str", v |-> s]
PyList(l) == [t |-> "list", v |-> l]
\* A call of the PDF library that throws instead of returning.
Throws == [t |-> "throws", v |-> <<>>]

\* bool(x): None, "" and [] are falsy.
Truthy(x) == x.t # "none" /\ Len(x.v) > 0

\* for e in x: the items of a list, the characters of a str.
Iter(x) == IF x.t = "str" THEN [i \in 1..Len(x.v) |-> PyStr(<<x.v[i]>>)] ELSE x.v

\* str(x) of a str is the str itself; str(None) is "None".
StrOf(x) == IF x.t = "none" THEN <<"N", "o", "n", "e">> ELSE x.v

\* --------------------------------------------------------- str methods
Whitespace == {" ", "\n", "\t"}
Digits == {"0", "1", "2", "3", "4", "5", "6", "7", "8", "9"}
DigitChars == <<"0", "1", "2", "3", "4", "5", "6", "7", "8", "9">>
UpperChars == <<"A", "B", "C", "D", "E", "F", "G", "H", "I", "J", "K", "L", "M",
                "N", "O", "P", "Q", "R", "S", "T", "U", "V", "W", "X", "Y", "Z">>
LowerChars == <<"a", "b", "c", "d", "e", "f", "g", "h", "i", "j", "k", "l", "m",
                "n", "o", "p", "q", "r", "s", "t", "u", "v", "w", "x", "y", "z">>

LowerChar(c) ==
    IF \E i \in 1..Len(UpperChars) : UpperChars[i] = c
    THEN LowerChars[CHOOSE i \in 1..Len(UpperChars) : UpperChars[i] = c]
    ELSE c

\* s.lower()
StrLower(s) == [i \in 1..Len(s) |-> LowerChar(s[i])]

\* s.strip()
StrStrip(s) ==
    LET keep == {i \in 1..Len(s) : s[i] \notin Whitespace}
    IN  IF keep = {} THEN <<>>
        ELSE LET lo == CHOOSE i \in keep : \A j \in keep : i <= j
                 hi == CHOOSE i \in keep : \A j \in keep : j <= i
             IN  SubSeq(s, lo, hi)

\* sub in s
StrContains(sub, s) ==
    \E i \in 1..(Len(s) - Len(sub) + 1) : SubSeq(s, i, i + Len(sub) - 1) = sub

\* s.replace(c, '')
StrRemove(s, c) == SelectSeq(s, LAMBDA x : x # c)

\* s.replace(a, b) for single characters a and b
StrReplace(s, a, b) == [i \in 1..Len(s) |-> IF s[i] = a THEN b ELSE s[i]]

\* -------------------------------------------------------------- float()
DigitVal(c) == (CHOOSE i \in 1..Len(DigitChars) : DigitChars[i] = c) - 1

RECURSIVE DigitsValue(_)
DigitsValue(s) ==
    IF Len(s) = 0 THEN 0
    ELSE 10 * DigitsValue(SubSeq(s, 1, Len(s) - 1)) + DigitVal(s[Len(s)])

\* float(s) succeeds on digits with at most one "." and at least one digit
\* ("12", "12.", ".5", "12.5"); "", ".", "n/a" raise ValueError.
IsFloatLiteral(s) ==
    /\ \A i \in 1..Len(s) : s[i] \in Digits \cup {"."}
    /\ Cardinality({i \in 1..Len(s) : s[i] = "."}) <= 1
    /\ \E i \in 1..Len(s) : s[i] \in Digits

\* The value of float(s) in hundredths.
FloatValue(s) ==
    LET dot == IF \E i \in 1..Len(s) : s[i] = "."
               THEN CHOOSE i \in 1..Len(s) : s[i] = "."
               ELSE Len(s) + 1
        ip == SubSeq(s, 1, dot - 1)
        fp == SubSeq(s, dot + 1, Len(s))
        d1 == IF Len(fp) >= 1 THEN DigitVal(fp[1]) ELSE 0
        d2 == IF Len(fp) >= 2 THEN DigitVal(fp[2]) ELSE 0
    IN  DigitsValue(ip) * Scale + 10 * d1 + d2

\* ------------------------------------------------------------ re.search
\* The last index of the run of digits of s that starts at index from
\* (from - 1 when s has no digit there).
RECURSIVE DigitRunEnd(_, _)
DigitRunEnd(s, from) ==
    IF from <= Len(s) /\ s[from] \in Digits THEN DigitRunEnd(s, from + 1) ELSE from - 1

\* One attempt of LABEL[^\d]*(\d+[,.]?\d*) at start index p, followed by a
\* literal % when pct.  [^\d]* runs to the first digit after the label, the
\* three greedy parts take the longest numeral, and no shorter numeral is
\* followed by %, so backtracking finds nothing the greedy attempt misses.
MatchAt(label, s, p, pct) ==
    LET q == p + Len(label)
        ds == {i \in q..Len(s) : s[i] \in Digits}
        d == IF ds = {} THEN 0 ELSE CHOOSE i \in ds : \A j \in ds : i <= j
        e == DigitRunEnd(s, d)
        e2 == IF e + 1 <= Len(s) /\ s[e + 1] \in {",", "."} THEN e + 1 ELSE e
        f == DigitRunEnd(s, e2 + 1)
    IN  [ok |-> /\ q - 1 <= Len(s)
                /\ SubSeq(s, p, q - 1) = label
                /\ d # 0
                /\ (pct => (f + 1 <= Len(s) /\ s[f + 1] = "%")),
         group |-> IF d = 0 THEN <<>> ELSE SubSeq(s, d, f)]

\* re.search: the attempt at the leftmost start index that matches, else None.
Search(label, s, pct) ==
    LET ps == {p \in 1..Len(s) : MatchAt(label, s, p, pct).ok}
    IN  IF ps = {} THEN [found |-> FALSE, group |-> <<>>]
        ELSE [found |-> TRUE,
              group |-> MatchAt(label, s, CHOOSE p \in ps : \A r \in ps : p <= r, pct).group]

\* ------------------------------------------- extract_financials_from_table
RevenueKeys == <<"Revenue 2022", "Revenue 2023", "Revenue 2024">>
EBITKeys == <<"EBIT 2022", "EBIT 2023", "EBIT 2024">>
TableKeys == {RevenueKeys[i] : i \in 1..3} \cup {EBITKeys[i] : i \in 1..3}
TextKeys == {"EBIT", "Revenue Growth", "EBIT Margins"}

\* The default of a metric that is not found: 0.0.
ZeroDefault == 0

InitialFinancialDataNone == [k \in TableKeys |-> 0 - 1]
\* financial_data = {"Revenue 2022": 0.0, ...}
InitialFinancialData == [k \in TableKeys |-> ZeroDefault]

\* row_text = [str(cell).strip().lower() for cell in row if cell]
RowText(row) ==
    LET kept == SelectSeq(Iter(row), Truthy)
    IN  [i \in 1..Len(kept) |-> StrLower(StrStrip(StrOf(kept[i])))]

\* row_text[i + 1].replace(',', '').replace(' ', '')
CleanCell(s) == StrRemove(StrRemove(s, ","), " ")

\* for i, year in enumerate(["2022", "2023", "2024"]): the cell at Python
\* index i + 1 of row_text, when there is one and float() accepts it.
AssignYears(fd, keys, row_text) ==
    [k \in DOMAIN fd |->
        IF \E i \in 1..3 : /\ keys[i] = k
                           /\ i + 1 <= Len(row_text)
                           /\ IsFloatLiteral(CleanCell(row_text[i + 1]))
        THEN LET i == CHOOSE j \in 1..3 : keys[j] = k
             IN  FloatValue(CleanCell(row_text[i + 1]))
        ELSE fd[k]]

\* The body of the inner loop for one row; row_text[0] of an empty row_text
\* raises IndexError.
ProcessRow(fd, row) ==
    IF ~Truthy(row) THEN [raised |-> FALSE, data |-> fd]
    ELSE LET row_text == RowText(row)
         IN  IF Len(row_text) = 0 THEN [raised |-> TRUE, data |-> fd]
             ELSE LET fd1 == IF StrContains(<<"r", "e", "v", "e", "n", "u", "e">>, row_text[1])
                             THEN AssignYears(fd, RevenueKeys, row_text) ELSE fd
                      fd2 == IF StrContains(<<"e", "b", "i", "t">>, row_text[1])
                             THEN AssignYears(fd1, EBITKeys, row_text) ELSE fd1
                  IN  [raised |-> FALSE, data |-> fd2]

\* for table in tables: for row in table: the rows in scan order.
RECURSIVE ScanRows(_)
ScanRows(tabs) ==
    IF Len(tabs) = 0 THEN <<>> ELSE Iter(Head(tabs)) \o ScanRows(Tail(tabs))

RECURSIVE ProcessRows(_, _)
ProcessRows(fd, rows) ==
    IF Len(rows) = 0 THEN [raised |-> FALSE, data |-> fd]
    ELSE LET r == ProcessRow(fd, Head(rows))
         IN  IF r.raised THEN r ELSE ProcessRows(r.data, Tail(rows))

ExtractFinancialsFromTable(tabs) == ProcessRows(InitialFinancialData, ScanRows(tabs))

\* ---------------------------------------------------- extract_key_metrics
TextLabel(k) ==
    CASE k = "EBIT" -> <<"E", "B", "I", "T">>
      [] k = "Revenue Growth" -> <<"g", "r", "o", "w", "t", "h">>
      [] k = "EBIT Margins" -> <<"E", "B", "I", "T", " ", "m", "a", "r", "g", "i", "n">>

\* The three re.search calls: only the EBIT pattern has no trailing %.
TextMatch(k, s) == Search(TextLabel(k), s, k # "EBIT")

\* float(val.group(1).replace(',', '.')) if val else 0.0
TextMetric(k, s) ==
    LET m == TextMatch(k, s)
    IN  IF m.found THEN FloatValue(StrReplace(m.group, ",", ".")) ELSE ZeroDefault

ExtractKeyMetrics(s, tabs) ==
    LET fin == ExtractFinancialsFromTable(tabs)
    IN  [raised |-> fin.raised,
         metrics |-> [k \in TextKeys \cup TableKeys |->
                        IF k \in TableKeys THEN fin.data[k] ELSE TextMetric(k, s)]]

\* ------------------------------------------------------------ score_deal
ScoredCriteria == {"Size (EBIT)", "Market Growth", "Stable Margins"}

ScoreDealInclusive(m) ==
    [c \in ScoredCriteria |->
        CASE c = "Size (EBIT)" ->
                 IF m["EBIT"] >= 3 * Scale THEN 5
                 ELSE IF m["EBIT"] >= 2 * Scale THEN 4
                 ELSE IF m["EBIT"] >= (3 * Scale) \div 2 THEN 3
                 ELSE IF m["EBIT"] >= 1 * Scale THEN 2 ELSE 1
          [] c = "Market Growth" ->
                 IF m["Revenue Growth"] >= 8 * Scale THEN 5
                 ELSE IF m["Revenue Growth"] >= 6 * Scale THEN 4
                 ELSE IF m["Revenue Growth"] >= 5 * Scale THEN 3
                 ELSE IF m["Revenue Growth"] >= 3 * Scale THEN 2 ELSE 1
          [] c = "Stable Margins" ->
                 IF m["EBIT Margins"] >= 20 * Scale THEN 5
                 ELSE IF m["EBIT Margins"] >= 15 * Scale THEN 4
                 ELSE IF m["EBIT Margins"] >= 10 * Scale THEN 3
                 ELSE IF m["EBIT Margins"] >= 5 * Scale THEN 2 ELSE 1]

ScoreDeal(m) ==
    [c \in ScoredCriteria |->
        CASE c = "Size (EBIT)" ->
                 IF m["EBIT"] > 3 * Scale THEN 5
                 ELSE IF m["EBIT"] > 2 * Scale THEN 4
                 ELSE IF m["EBIT"] > (3 * Scale) \div 2 THEN 3
                 ELSE IF m["EBIT"] > 1 * Scale THEN 2 ELSE 1
          [] c = "Market Growth" ->
                 IF m["Revenue Growth"] > 8 * Scale THEN 5
                 ELSE IF m["Revenue Growth"] > 6 * Scale THEN 4
                 ELSE IF m["Revenue Growth"] > 5 * Scale THEN 3
                 ELSE IF m["Revenue Growth"] > 3 * Scale THEN 2 ELSE 1
          [] c = "Stable Margins" ->
                 IF m["EBIT Margins"] > 20 * Scale THEN 5
                 ELSE IF m["EBIT Margins"] > 15 * Scale THEN 4
                 ELSE IF m["EBIT Margins"] > 10 * Scale THEN 3
                 ELSE IF m["EBIT Margins"] > 5 * Scale THEN 2 ELSE 1]

\* ------------------------------------------------- calculate_final_score
Criteria == {"Size (EBIT)", "Market Growth", "Mission-Critical Offering",
             "Recurring Revenue", "Stable Margins"}

\* SCORING_WEIGHTS, in percent.
SCORING_WEIGHTS == [c \in Criteria |-> 20]

\* sum(scores[c] * (SCORING_WEIGHTS[c] / 100) for c in cs), in 1/Scale of a
\* hundredth.
RECURSIVE WeightedSum(_, _)
WeightedSum(sc, cs) ==
    IF cs = {} THEN 0
    ELSE LET c == CHOOSE x \in cs : TRUE
         IN  sc[c] * SCORING_WEIGHTS[c] * Scale + WeightedSum(sc, cs \ {c})

\* round(x, 2) of x >= 0 given in 1/Scale of a hundredth: the nearest
\* hundredth, a tie going to the even one.
Round2(x) ==
    LET q == x \div Scale
        r == x % Scale
    IN  IF 2 * r > Scale \/ (2 * r = Scale /\ q % 2 = 1) THEN q + 1 ELSE q

CalculateFinalScore(sc) == Round2(WeightedSum(sc, DOMAIN sc))

\* -------------------------------------------------- extract_text_from_pdf
\* A page is [text, table]: what page.extract_text() returns (a str or
\* None) and what page.extract_table() does (returns a grid or None, or
\* throws).
RECURSIVE PdfPages(_, _, _)
PdfPages(pages, txt, tabs) ==
    IF Len(pages) = 0 THEN [raised |-> FALSE, text |-> txt, tables |-> tabs]
    ELSE LET page == Head(pages)
             txt1 == IF Truthy(page.text) THEN txt \o page.text.v \o <<"\n">> ELSE txt
         IN  IF page.table.t = "throws"
             THEN [raised |-> TRUE, text |-> txt1, tables |-> tabs]
             ELSE PdfPages(Tail(pages), txt1,
                           IF Truthy(page.table) THEN tabs \o page.table.v ELSE tabs)

ExtractTextFromPdf(pages) == PdfPages(pages, <<>>, <<>>)

\* ------------------------------------------------- extract_text_from_docx
\* "\n".join(paragraph texts)
RECURSIVE ExtractTextFromDocx(_)
ExtractTextFromDocx(paras) ==
    IF Len(paras) = 0 THEN <<>>
    ELSE IF Len(paras) = 1 THEN paras[1]
    ELSE paras[1] \o <<"\n">> \o ExtractTextFromDocx(Tail(paras))

\* ------------------------------------------------------------------ main
\* (EBIT / Revenue * 100) if Revenue else 0, cut to hundredths of a percent.
MarginPercent(ebit, revenue) ==
    IF revenue # 0 THEN (ebit * 100 * Scale) \div revenue ELSE 0

\* What main() hands to the page: the final score line, the score table and
\* the financial summary table.
Rendered(m, sc, fs) ==
    [k \in {"Final Score", "Scores", "Financial Summary"} |->
        CASE k = "Final Score" -> fs
          [] k = "Scores" -> sc
          [] k = "Financial Summary" ->
                 [i \in 1..3 |-> [Revenue |-> m[RevenueKeys[i]],
                                  EBIT |-> m[EBITKeys[i]],
                                  Margin |-> MarginPercent(m[EBITKeys[i]], m[RevenueKeys[i]])]]]

\* ---------------------------------------------------------------- inputs
\* Texts handed to extract_key_metrics.
TextSamples ==
    <<<<"E", "B", "I", "T", " ", "3", ".", "5", "\n", "g", "r", "o", "w", "t", "h", " ", "o", "f", " ", "9", "%", "\n", "E", "B", "I", "T", " ", "m", "a", "r", "g", "i", "n", " ", "2", "2", "%">>,
      <<"E", "B", "I", "T", " ", "m", "a", "r", "g", "i", "n", " ", "o", "f", " ", "1", "2", ",", "5", "%">>,
      <<"g", "r", "o", "w", "t", "h", " ", "5", ",", " ", "l", "a", "t", "e", "r", " ", "g", "r", "o", "w", "t", "h", " ", "7", "%">>,
      <<"E", "B", "I", "T", " ", "0">>,
      <<"n", "o", " ", "f", "i", "g", "u", "r", "e", "s">>,
      <<>>>>

\* Rows of the tables handed to extract_key_metrics: cells are str or None.
RowSamples ==
    <<PyList(<<PyStr(<<"R", "e", "v", "e", "n", "u", "e">>), PyStr(<<"1", "0", "0">>), PyStr(<<"2", "0", "0">>), PyStr(<<"3", "0", "0">>)>>),
      PyList(<<PyStr(<<"R", "e", "v", "e", "n", "u", "e">>), PyNone, PyStr(<<"2", "0", "0">>), PyStr(<<"3", "0", "0">>)>>),
      PyList(<<PyStr(<<"T", "o", "t", "a", "l", " ", "R", "e", "v", "e", "n", "u", "e">>), PyStr(<<"1", ",", "2", "0", "0">>), PyStr(<<"n", "/", "a">>), PyStr(<<"5">>)>>),
      PyList(<<PyStr(<<"E", "B", "I", "T">>), PyStr(<<"1", "0">>), PyStr(<<"2", "0">>), PyStr(<<"3", "0">>)>>),
      PyList(<<PyStr(<<"E", "B", "I", "T">>), PyStr(<<>>), PyStr(<<"7">>)>>),
      PyList(<<PyStr(<<"E", "B", "I", "T">>), PyStr(<<" ">>), PyStr(<<"0">>)>>),
      PyList(<<PyNone, PyStr(<<>>)>>),
      PyList(<<PyNone, PyStr(<<"R", "e", "v", "e", "n", "u", "e">>), PyStr(<<"5", "0">>)>>),
      PyList(<<PyStr(<<"I", "t", "e", "m">>), PyStr(<<"1">>)>>),
      PyList(<<>>)>>

\* Sequences of at most n of the first k positive integers.
IndexSeqs(k, n) == UNION {[1..m -> 1..k] : m \in 0..n}

\* The list of tables made of the rows RowSamples[ix[i]]: one table, or two
\* when cut after row cut (0 < cut < Len(ix)).
TablesOf(ix, cut) ==
    LET rs == [i \in 1..Len(ix) |-> RowSamples[ix[i]]]
    IN  IF cut = 0 THEN <<PyList(rs)>>
        ELSE <<PyList(SubSeq(rs, 1, cut)), PyList(SubSeq(rs, cut + 1, Len(rs)))>>

\* Paragraph texts of a DOCX.
ParagraphSamples ==
    <<<<"E", "B", "I", "T", " ", "3", ".", "5">>,
      <<"g", "r", "o", "w", "t", "h", " ", "o", "f", " ", "9", "%">>,
      <<"E", "B", "I", "T", " ", "m", "a", "r", "g", "i", "n", " ", "2", "2", "%">>,
      <<>>>>

\* Pages of a PDF.
PageSamples ==
    <<[text |-> PyStr(<<"E", "B", "I", "T", " ", "3", ".", "5">>),
       table |-> PyNone],
      [text |-> PyStr(<<"g", "r", "o", "w", "t", "h", " ", "o", "f", " ", "9", "%", "\n", "E", "B", "I", "T", " ", "m", "a", "r", "g", "i", "n", " ", "2", "2", "%">>),
       table |-> PyList(<<PyList(<<PyStr(<<"R", "e", "v", "e", "n", "u", "e">>), PyStr(<<"1", "0", "0">>), PyStr(<<"2", "0", "0">>), PyStr(<<"3", "0", "0">>)>>)>>)],
      [text |-> PyNone,
       table |-> PyList(<<PyList(<<PyStr(<<"E", "B", "I", "T">>), PyStr(<<"1", "0">>), PyStr(<<"2", "0">>), PyStr(<<"3", "0">>)>>),
                         PyList(<<PyNone, PyStr(<<>>)>>)>>)],
      [text |-> PyStr(<<>>),
       table |-> Throws],
      [text |-> PyStr(<<"N", "o", "t", "e", "s">>),
       table |-> PyList(<<PyList(<<PyStr(<<"R", "e", "v", "e", "n", "u", "e">>), PyStr(<<"5", "0">>)>>),
                         PyList(<<PyStr(<<"E", "B", "I", "T">>), PyStr(<<"7">>), PyStr(<<"0">>), PyStr(<<"5">>)>>)>>)]>>

NoDoc == [kind |-> "none", pages |-> <<>>, paragraphs |-> <<>>]

\* The uploads: a PDF of at most MaxPages pages, a DOCX of at most MaxPages
\* paragraphs.
Documents ==
    {[kind |-> "pdf", pages |-> [i \in 1..Len(ix) |-> PageSamples[ix[i]]], paragraphs |-> <<>>] :
        ix \in IndexSeqs(Len(PageSamples), MaxPages)}
    \cup
    {[kind |-> "docx", pages |-> <<>>, paragraphs |-> [i \in 1..Len(ix) |-> ParagraphSamples[ix[i]]]] :
        ix \in IndexSeqs(Len(ParagraphSamples), MaxPages)}

\* Metric values within Delta hundredths of the thresholds ts, and 0.
NearThresholds(ts) == {0} \cup {(t * Scale) \div 2 + d : t \in ts, d \in (0 - Delta)..Delta}

\* The metric maps handed to score_deal: the thresholds are given in halves.
MetricInputs ==
    {[k \in TextKeys \cup TableKeys |->
        CASE k = "EBIT" -> e
          [] k = "Revenue Growth" -> g
          [] k = "EBIT Margins" -> m
          [] OTHER -> ZeroDefault] :
        e \in NearThresholds({2, 3, 4, 6}),
        g \in NearThresholds({6, 10, 12, 16}),
        m \in NearThresholds({10, 20, 30, 40})}

\* ----------------------------------------------------------------- state
Unset == <<>>

\* main(): a file has been uploaded.
Init ==
    /\ pc = "upload"
    /\ doc \in Documents
    /\ text = Unset /\ tables = Unset /\ metrics = Unset /\ scores = Unset
    /\ final_score = 0 /\ output = Unset /\ err = "none"

\* A direct call of extract_key_metrics(text, tables).
InitExtract ==
    /\ pc = "extract"
    /\ doc = NoDoc
    /\ \E i \in 1..Len(TextSamples) : text = TextSamples[i]
    /\ \/ tables = <<>>
       \/ \E ix \in IndexSeqs(Len(RowSamples), MaxRows) :
             \E cut \in 0..(Len(ix) - 1) : tables = TablesOf(ix, cut)
    /\ metrics = Unset /\ scores = Unset
    /\ final_score = 0 /\ output = Unset /\ err = "none"

\* A direct call of score_deal(metrics).
InitScore ==
    /\ pc = "score"
    /\ doc = NoDoc /\ text = Unset /\ tables = Unset
    /\ metrics \in MetricInputs
    /\ scores = Unset /\ final_score = 0 /\ output = Unset /\ err = "none"

\* text, tables = extract_text_from_pdf(uploaded_file); an exception of the
\* PDF library leaves the function and main().
CallExtractTextFromPdf ==
    /\ pc = "upload" /\ doc.kind = "pdf"
    /\ LET r == ExtractTextFromPdf(doc.pages)
       IN  IF r.raised
           THEN /\ pc' = "raised" /\ err' = "PdfError"
                /\ UNCHANGED <<text, tables>>
           ELSE /\ pc' = "extract" /\ text' = r.text /\ tables' = r.tables
                /\ UNCHANGED err
    /\ UNCHANGED <<doc, metrics, scores, final_score, output>>

\* text, tables = (extract_text_from_docx(uploaded_file), [])
CallExtractTextFromDocx ==
    /\ pc = "upload" /\ doc.kind = "docx"
    /\ pc' = "extract"
    /\ text' = ExtractTextFromDocx(doc.paragraphs)
    /\ tables' = <<>>
    /\ UNCHANGED <<doc, metrics, scores, final_score, output, err>>

\* metrics = extract_key_metrics(text, tables)
CallExtractKeyMetrics ==
    /\ pc = "extract"
    /\ LET r == ExtractKeyMetrics(text, tables)
       IN  IF r.raised
           THEN /\ pc' = "raised" /\ err' = "IndexError"
                /\ UNCHANGED metrics
           ELSE /\ pc' = "score" /\ metrics' = r.metrics
                /\ UNCHANGED err
    /\ UNCHANGED <<doc, text, tables, scores, final_score, output>>

\* scores = score_deal(metrics)
CallScoreDeal ==
    /\ pc = "score"
    /\ pc' = "final"
    /\ scores' = ScoreDeal(metrics)
    /\ UNCHANGED <<doc, text, tables, metrics, final_score, output, err>>

\* final_score = calculate_final_score(scores)
CallCalculateFinalScore ==
    /\ pc = "final"
    /\ pc' = "render"
    /\ final_score' = CalculateFinalScore(scores)
    /\ UNCHANGED <<doc, text, tables, metrics, scores, output, err>>

\* The st.write / st.table calls that end main().
Render ==
    /\ pc = "render"
    /\ pc' = "done"
    /\ output' = Rendered(metrics, scores, final_score)
    /\ UNCHANGED <<doc, text, tables, metrics, scores, final_score, err>>

Next ==
    \/ CallExtractTextFromPdf
    \/ CallExtractTextFromDocx
    \/ CallExtractKeyMetrics
    \/ CallScoreDeal
    \/ CallCalculateFinalScore
    \/ Render

NextExtract ==
    \/ CallExtractKeyMetrics
    \/ CallScoreDeal
    \/ CallCalculateFinalScore

NextScore ==
    \/ CallScoreDeal
    \/ CallCalculateFinalScore

\* The pipeline of main() on an uploaded document.
Spec == Init /\ [][Next]_vars

\* extract_key_metrics, score_deal and calculate_final_score called on a text
\* and a list of tables.
SpecExtract == InitExtract /\ [][NextExtract]_vars

\* score_deal and calculate_final_score called on a metric map.
SpecScore == InitScore /\ [][NextScore]_vars

\* ---------------------------------------------------------------- claims
RevenueLabel == <<"r", "e", "v", "e", "n", "u", "e">>
EBITLabel == <<"e", "b", "i", "t">>
SeriesKeys(label) == IF label = RevenueLabel THEN RevenueKeys ELSE EBITKeys

\* The band of v on a descending ladder of thresholds ts, each band entered
\* only above its threshold: 1 plus the number of thresholds v exceeds.
StrictBand(v, ts) == 1 + Cardinality({t \in ts : v > t})

\* C1: score_deal gives every scored criterion the score of the first band
\* of its descending ladder that the metric strictly exceeds, so a metric
\* equal to a boundary gets the lower band (EBIT Margins = 20.0 scores 4).
C1_StrictLadders ==
    pc \in {"final", "render", "done"} =>
        /\ DOMAIN scores = ScoredCriteria
        /\ scores["Size (EBIT)"] =
               StrictBand(metrics["EBIT"], {3 * Scale, 2 * Scale, (3 * Scale) \div 2, Scale})
        /\ scores["Market Growth"] =
               StrictBand(metrics["Revenue Growth"], {8 * Scale, 6 * Scale, 5 * Scale, 3 * Scale})
        /\ scores["Stable Margins"] =
               StrictBand(metrics["EBIT Margins"], {20 * Scale, 15 * Scale, 10 * Scale, 5 * Scale})
        /\ (metrics["EBIT Margins"] = 20 * Scale => scores["Stable Margins"] = 4)

\* score_deal has scored a metric map whose EBIT Margins is exactly 20.0.
C1_Witness ==
    /\ pc = "final"
    /\ metrics["EBIT Margins"] = 20 * Scale
    /\ metrics["EBIT"] = 3 * Scale
    /\ scores["Stable Margins"] = 4
    /\ scores["Size (EBIT)"] = 4

\* C2: the final score of every score card score_deal produces lies in
\* [1.0, 5.0].
C2_FinalScoreRange ==
    pc = "render" => (1 * Scale <= final_score /\ final_score <= 5 * Scale)

\* C3: for the text "EBIT 3.5\ngrowth of 9%\nEBIT margin 22%" and no tables
\* the metrics are EBIT 3.5, Revenue Growth 9, EBIT Margins 22, the three
\* scores are 5 and the final score is 5.00.
C3_EndToEnd ==
    (pc = "render" /\ Len(tables) = 0 /\ text = TextSamples[1]) =>
        /\ metrics["EBIT"] = (7 * Scale) \div 2
        /\ metrics["Revenue Growth"] = 9 * Scale
        /\ metrics["EBIT Margins"] = 22 * Scale
        /\ \A c \in ScoredCriteria : scores[c] = 5
        /\ final_score = 5 * Scale

\* The recommendation tier of a final score: inclusive lower bounds.
TierOf(fs) ==
    IF 2 * fs >= 9 * Scale THEN "Excellent"
    ELSE IF fs >= 4 * Scale THEN "Attractive"
    ELSE IF 2 * fs >= 7 * Scale THEN "Moderate"
    ELSE "Weak"

\* C4: every pipeline run puts into its output the recommendation tier of
\* its final score (>= 4.5 Excellent, >= 4.0 Attractive, >= 3.5 Moderate,
\* else Weak).
C4_TierInOutput ==
    pc = "done" =>
        /\ "Recommendation" \in DOMAIN output
        /\ output["Recommendation"] = TierOf(output["Final Score"])

\* Python's None as a metric value: no float of the model is negative.
NoneValue == 0 - 1

\* The row assigns financial_data[k]: it is scanned, its first kept cell
\* holds the label and float() accepts the kept cell of k's year.
RowAssigns(row, label, k) ==
    /\ Truthy(row)
    /\ LET row_text == RowText(row)
       IN  /\ Len(row_text) > 0
           /\ StrContains(label, row_text[1])
           /\ \E i \in 1..3 : /\ SeriesKeys(label)[i] = k
                              /\ i + 1 <= Len(row_text)
                              /\ IsFloatLiteral(CleanCell(row_text[i + 1]))

\* The text pattern or some table row produced a value for metric k.
Produced(k, s, tabs) ==
    IF k \in TextKeys THEN TextMatch(k, s).found
    ELSE \E j \in 1..Len(ScanRows(tabs)) :
            \E label \in {RevenueLabel, EBITLabel} : RowAssigns(ScanRows(tabs)[j], label, k)

C6_NeverRaises == pc # "raised"

\* The row as it appears in the table qualifies for label: its first cell is
\* a str that, trimmed and lower-cased, contains the label.
QualifiesAsWritten(row, label) ==
    /\ row.t = "list" /\ Len(row.v) >= 1
    /\ row.v[1].t = "str"
    /\ StrContains(label, StrLower(StrStrip(row.v[1].v)))

\* The cell at position i of the row as it appears in the table (the label
\* is at position 0), as a number.
CellAsWritten(row, i) ==
    IF i + 1 <= Len(row.v) /\ row.v[i + 1].t = "str"
    THEN LET c == CleanCell(StrStrip(row.v[i + 1].v))
         IN  IF IsFloatLiteral(c) THEN [ok |-> TRUE, val |-> FloatValue(c)]
             ELSE [ok |-> FALSE, val |-> 0]
    ELSE [ok |-> FALSE, val |-> 0]

\* The value rows gives the i-th year of label: that of the last row that
\* qualifies as written and has a number at position i; none when no row
\* does.
SeriesAsWritten(rows, label, i) ==
    LET js == {j \in 1..Len(rows) : /\ QualifiesAsWritten(rows[j], label)
                                    /\ CellAsWritten(rows[j], i).ok}
    IN  IF js = {} THEN [ok |-> FALSE, val |-> 0]
        ELSE CellAsWritten(rows[CHOOSE j \in js : \A h \in js : h <= j], i)

QualifyingRows(rows, label) == {j \in 1..Len(rows) : QualifiesAsWritten(rows[j], label)}

\* C7: when one row qualifies for a label, year i of that label is the cell
\* at position i + 1 of the row as it appears in the table, and is absent
\* (left at the default) when that cell is null, empty or no number.
C7_PositionalCells ==
    pc = "score" =>
        \A label \in {RevenueLabel, EBITLabel} :
            LET rows == ScanRows(tables)
            IN  Cardinality(QualifyingRows(rows, label)) = 1 =>
                    \A i \in 1..3 :
                        LET c == CellAsWritten(rows[CHOOSE j \in QualifyingRows(rows, label) : TRUE], i)
                        IN  metrics[SeriesKeys(label)[i]] = IF c.ok THEN c.val ELSE ZeroDefault

\* C8: when several rows qualify for a label, the value kept for a year is
\* that of the last qualifying row with a number in that year's cell.
C8_LastParseableWins ==
    pc = "score" =>
        \A label \in {RevenueLabel, EBITLabel} :
            LET rows == ScanRows(tables)
            IN  Cardinality(QualifyingRows(rows, label)) >= 2 =>
                    \A i \in 1..3 :
                        SeriesAsWritten(rows, label, i).ok =>
                            metrics[SeriesKeys(label)[i]] = SeriesAsWritten(rows, label, i).val

\* The rows of the page tables of a PDF, in page order.
RECURSIVE PageRows(_)
PageRows(pages) ==
    IF Len(pages) = 0 THEN <<>>
    ELSE (IF Head(pages).table.t = "list" THEN Head(pages).table.v ELSE <<>>)
         \o PageRows(Tail(pages))

\* C9: in main() on a PDF, a page table row whose first cell contains the
\* label and whose cells are numbers ends up in the metric map as the
\* label's year values.
C9_PipelineScansRows ==
    (pc \in {"score", "final", "render", "done"} /\ doc.kind = "pdf") =>
        \A label \in {RevenueLabel, EBITLabel} : \A i \in 1..3 :
            SeriesAsWritten(PageRows(doc.pages), label, i).ok =>
                metrics[SeriesKeys(label)[i]] = SeriesAsWritten(PageRows(doc.pages), label, i).val

\* The page's table extraction returns a grid whose rows have one length.
WellFormedGrid(page) ==
    /\ page.table.t = "list"
    /\ \A a, b \in 1..Len(page.table.v) : Len(page.table.v[a].v) = Len(page.table.v[b].v)

RECURSIVE GoodPageRows(_)
GoodPageRows(pages) ==
    IF Len(pages) = 0 THEN <<>>
    ELSE (IF WellFormedGrid(Head(pages)) THEN Head(pages).table.v ELSE <<>>)
         \o GoodPageRows(Tail(pages))

RECURSIVE PageTexts(_)
PageTexts(pages) ==
    IF Len(pages) = 0 THEN <<>>
    ELSE (IF Truthy(Head(pages).text) THEN Head(pages).text.v \o <<"\n">> ELSE <<>>)
         \o PageTexts(Tail(pages))

\* C10: extract_text_from_pdf never aborts on a page whose table extraction
\* throws or returns a ragged grid: it returns the text of every page with
\* text and the tables of the other pages, in page order.
C10_BadPageSkipped ==
    (doc.kind = "pdf" /\ pc # "upload") =>
        /\ pc # "raised"
        /\ text = PageTexts(doc.pages)
        /\ Len(tables) = Len(GoodPageRows(doc.pages))
        /\ tables = GoodPageRows(doc.pages)

=============================================================================
